---- MODULE Spec2Model ----
(***************************************************************************)
(* State-machine model of the York breathing-exercise timer, js/app.js.    *)
(*                                                                         *)
(* The program is a set of free-standing mutable variables changed by      *)
(* event handlers (button clicks, window.handleRestDurationChange) and by  *)
(* the requestAnimationFrame callback `tick`.  Every function of the       *)
(* source that touches the timer state is an operator here that takes the  *)
(* program state `s` (a record, one field per source variable) and returns *)
(* the state the function leaves behind; an action applies one handler to  *)
(* the current state.  Date.now() is the variable `now`, advanced by the   *)
(* environment.  DOM class toggling, confetti and button texts carry no    *)
(* timer state and are left out; the status line, the tones played and the *)
(* success screen are kept as the observable outputs.                      *)
(***************************************************************************)
EXTENDS Integers, Sequences, FiniteSets, TLC

(***************************************************************************)
(* Program constants                                                       *)
(***************************************************************************)
IDLE       == "IDLE"
PAUSED     == "PAUSED"
ACTIVE_REP == "ACTIVE_REP"
LONG_BREAK == "LONG_BREAK"
TIMER_STATE == {IDLE, PAUSED, ACTIVE_REP, LONG_BREAK}

INHALE == "Inhale Deeply"
EXHALE == "Exhale Forcefully"
REST   == "Rest & Recover"
SUB_PHASE == {INHALE, EXHALE, REST}

\* JavaScript null in lastPlayedSubPhase
NULL == "null"
HELD == "held"             \* a WakeLockSentinel whose released attribute is false
RELEASED == "released"     \* a WakeLockSentinel whose released attribute is true
\* JavaScript null in animationFrameId; the handles of the browser are positive
NO_HANDLE == 0

TOTAL_REPS == 25
LONG_BREAK_DURATION_MS == 56000
INHALE_END_MS == 1000
EXHALE_END_MS == 3000
REP_DURATION_15_MS == 15000
REP_DURATION_30_MS == 30000
FULL_REPS == 20
PARTIAL_REPS_MS == 5 * 3000
FIXED_BREAK_MS == 4 * LONG_BREAK_DURATION_MS
TONE_LOW_HZ == 440
TONE_HIGH_HZ == 880

(***************************************************************************)
(* Bounds of the model                                                     *)
(***************************************************************************)
\* Date.now() at page load, in seconds; Date.now() is never 0 in a browser
ClockStartS == 1
\* the clock of Spec stops advancing after this many seconds
MaxNowS == 20
\* the user of Spec presses at most this many buttons
MaxClicks == 4
\* the clock of SpecRun (a session left alone) stops after this many seconds
MaxRunS == 600
\* at most this many animation-frame callbacks are pending at once
MaxCallbacks == 3

\* the clock of SpecSubPhase stops advancing after this many seconds
MaxSubPhaseS == 31

\* the clock of SpecPause stops advancing after this many seconds
MaxPauseS == 70
\* the user of SpecPause presses at most this many buttons after Start
MaxPauseClicks == 2
MaxWakeLockRequests == 2   \* wake-lock requests awaiting their answer
MaxWakeLockEvents == 2     \* 'release' events awaiting delivery
MaxWakeLocksLeaked == 1    \* held sentinels the page has lost track of
MaxWakeClicks == 2         \* buttons pressed in a run of SpecWakeLock
MaxWakeS == 600            \* the clock stops SpecWakeLock at this many seconds
MaxWakeClickS == 4         \* in SpecWakeLock the buttons are pressed until this second

\* the amounts of time (ms) by which Date.now() grows between two events
Steps == {1000, 2000, 12000}
\* the same in SpecSubPhase: to either side of the sub-phase edges
SubPhaseSteps == {999, 1000, 2000, 12000}
\* the same in SpecPause: to the Rest sub-phase, and to the end of the rep
PauseSteps == {3000, 12000}
LiveSteps == {3000, 12000, 15000}

VARIABLES
    now,                            \* Date.now()
    currentState,                   \* app.js:156
    animationFrameId,               \* app.js:159, NULL or a handle
    repCount,                       \* app.js:162
    phaseStartTime,                 \* app.js:165
    sessionStartTime,               \* app.js:168
    timeRemainingWhenPaused,        \* app.js:171
    sessionTimeRemainingWhenPaused, \* app.js:174
    setProgress,                    \* app.js:177, array index -> reps
    activeStateBeforePause,         \* app.js:180
    wasRunningBeforeModal,          \* app.js:183
    lastPlayedSubPhase,             \* app.js:554
    currentRepDurationMs,           \* app.js:112
    PHASE_DURATIONS_MS,             \* app.js:101
    totalSessionDurationMs,         \* app.js:118
    audioContext,                   \* app.js:223, TRUE once created
    statusText,                     \* statusText.innerHTML
    rafCallbacks,                   \* the browser's pending animation-frame callbacks (handles, oldest first)
    rafLastHandle,                  \* the browser's last handle given out by requestAnimationFrame
    wakeLockSupported,              \* 'wakeLock' in navigator (app.js:237)
    wakeLockSentinel,               \* app.js:191: NULL, or a sentinel, HELD or RELEASED
    wakeLockRequests,               \* calls of navigator.wakeLock.request not yet settled
    wakeLockReleaseEvents,          \* 'release' events not yet delivered to the listener
    wakeLocksLeaked,                \* held sentinels that wakeLockSentinel no longer names
    successShown,                   \* the success screen of finishSession is up
    tonesPlayed,                    \* the tones (Hz) the last step played, in order
    evaluations,                    \* the calls of updateActiveRepStatus in the last step
    statusUpdates,                  \* how many times the last step wrote the status line
    finishCalls,                    \* how many times the last step ran finishSession
    tickLog,                        \* the runs of tick in the last step, one record each
    clicks,                         \* how many buttons the user has pressed so far
    lastEvent,                      \* the event the last step handled
    restTicked,                     \* a tick has evaluated the Rest span of the current phase
    pausedInCountedRest,            \* the pause in force began in a Rest sub-phase already announced
    prevState,                      \* currentState before the last step
    prevRepCount,                   \* repCount before the last step
    repCountAtPhaseStart,           \* repCount when the running phase began
    breaksTaken                     \* the repCounts at which this session entered LONG_BREAK

vars == <<now, currentState, animationFrameId, repCount, phaseStartTime,
          sessionStartTime, timeRemainingWhenPaused, sessionTimeRemainingWhenPaused,
          setProgress, activeStateBeforePause, wasRunningBeforeModal,
          lastPlayedSubPhase, currentRepDurationMs, PHASE_DURATIONS_MS,
          totalSessionDurationMs, audioContext, statusText, rafCallbacks, rafLastHandle,
          wakeLockSupported, wakeLockSentinel, wakeLockRequests,
          wakeLockReleaseEvents, wakeLocksLeaked,
          successShown, tonesPlayed, evaluations, statusUpdates, finishCalls, tickLog, clicks, lastEvent, restTicked,
          pausedInCountedRest, prevState, prevRepCount, repCountAtPhaseStart,
          breaksTaken>>

\* the program state as one record, the form the operators below work on
S == [ currentState |-> currentState,
       animationFrameId |-> animationFrameId,
       repCount |-> repCount,
       phaseStartTime |-> phaseStartTime,
       sessionStartTime |-> sessionStartTime,
       timeRemainingWhenPaused |-> timeRemainingWhenPaused,
       sessionTimeRemainingWhenPaused |-> sessionTimeRemainingWhenPaused,
       setProgress |-> setProgress,
       activeStateBeforePause |-> activeStateBeforePause,
       wasRunningBeforeModal |-> wasRunningBeforeModal,
       lastPlayedSubPhase |-> lastPlayedSubPhase,
       currentRepDurationMs |-> currentRepDurationMs,
       PHASE_DURATIONS_MS |-> PHASE_DURATIONS_MS,
       totalSessionDurationMs |-> totalSessionDurationMs,
       audioContext |-> audioContext,
       statusText |-> statusText,
       rafCallbacks |-> rafCallbacks,
       rafLastHandle |-> rafLastHandle,
       wakeLockSupported |-> wakeLockSupported,
       wakeLockSentinel |-> wakeLockSentinel,
       wakeLockRequests |-> wakeLockRequests,
       wakeLockReleaseEvents |-> wakeLockReleaseEvents,
       wakeLocksLeaked |-> wakeLocksLeaked,
       successShown |-> successShown,
       tonesPlayed |-> <<>>,
       evaluations |-> <<>>,
       statusUpdates |-> 0,
       finishCalls |-> 0,
       tickLog |-> <<>>,
       nextStateCalls |-> 0,       \* how many times the step has called nextState
       phaseWrites |-> 0 ]         \* how many times it has assigned currentState

Range(q) == {q[i] : i \in 1..Len(q)}

(***************************************************************************)
(* The browser's animation-frame callback list                             *)
(***************************************************************************)
\* the handle the next requestAnimationFrame returns
NewHandle(s) == s.rafLastHandle + 1

\* requestAnimationFrame(tick): tick is queued under a fresh handle
requestAnimationFrame(s) ==
    [s EXCEPT !.rafCallbacks = Append(@, NewHandle(s)),
              !.rafLastHandle = NewHandle(s)]

\* cancelAnimationFrame(h): the callback h is dropped if it is still queued
cancelAnimationFrame(s, h) ==
    [s EXCEPT !.rafCallbacks = SelectSeq(@, LAMBDA x : x # h)]

(***************************************************************************)
(* Outputs and helpers                                                     *)
(***************************************************************************)
setStatusText(s, text) ==
    [s EXCEPT !.statusText = text, !.statusUpdates = @ + 1]

playTone(s, frequency) ==
    IF ~s.audioContext THEN s
    ELSE [s EXCEPT !.tonesPlayed = Append(@, frequency)]

playTransitionChime(s, subPhase) ==
    IF s.lastPlayedSubPhase = subPhase THEN s
    ELSE LET s1 == IF subPhase = INHALE \/ subPhase = REST
                   THEN playTone(s, TONE_LOW_HZ) ELSE s
             s2 == IF subPhase = EXHALE THEN playTone(s1, TONE_HIGH_HZ) ELSE s1
         IN  [s2 EXCEPT !.lastPlayedSubPhase = subPhase]

calculateTotalDuration_AllRepsFull(s, repDurationMs) ==
    [s EXCEPT !.totalSessionDurationMs =
        (TOTAL_REPS * repDurationMs) + FIXED_BREAK_MS + PARTIAL_REPS_MS]

calculateTotalDuration(s, repDurationMs) ==
    [s EXCEPT !.totalSessionDurationMs =
        (FULL_REPS * repDurationMs) + FIXED_BREAK_MS + PARTIAL_REPS_MS]

initAudio(s) == [s EXCEPT !.audioContext = TRUE]

\* setProgress[index] = value on a JavaScript array: any index becomes a property
WriteSetProgress(sp, index, value) ==
    [i \in DOMAIN sp \cup {index} |-> IF i = index THEN value ELSE sp[i]]

\* (repCount % 5) || 5
RepInSet(n) == IF n % 5 = 0 THEN 5 ELSE n % 5

\* Math.floor((repCount - 1) / 5)
SetIndex(n) == (n - 1) \div 5

(***************************************************************************)
(* The screen wake lock                                                    *)
(***************************************************************************)
\* lines 237-239: navigator.wakeLock.request('screen') is called; the
\* function continues when the promise settles
requestWakeLock(s) ==
    IF s.wakeLockSupported THEN [s EXCEPT !.wakeLockRequests = @ + 1] ELSE s

\* lines 239-246, after the await: the request is granted, the new sentinel
\* is stored and gets its 'release' listener
wakeLockGranted(s) ==
    [s EXCEPT !.wakeLockRequests = @ - 1,
              !.wakeLocksLeaked = IF s.wakeLockSentinel = HELD THEN @ + 1 ELSE @,
              !.wakeLockSentinel = HELD]

\* lines 247-252: the request is refused, the error is swallowed
wakeLockDenied(s) == [s EXCEPT !.wakeLockRequests = @ - 1]

\* sentinel.release() on a held sentinel queues its 'release' event
releaseWakeLock(s) ==
    IF s.wakeLockSentinel # NULL
    THEN [s EXCEPT !.wakeLockReleaseEvents =
                       IF s.wakeLockSentinel = HELD THEN @ + 1 ELSE @,
                   !.wakeLockSentinel = NULL]
    ELSE s

\* lines 240-246: the 'release' listener
wakeLockReleased(s) ==
    LET s1 == [s EXCEPT !.wakeLockReleaseEvents = @ - 1]
    IN  IF s1.currentState # IDLE /\ s1.currentState # PAUSED
        THEN requestWakeLock(s1)
        ELSE s1

(***************************************************************************)
(* Session control                                                         *)
(***************************************************************************)
finishSession(s) ==
    LET s0 == IF s.animationFrameId # NO_HANDLE
              THEN [cancelAnimationFrame(s, s.animationFrameId)
                       EXCEPT !.animationFrameId = NO_HANDLE]
              ELSE s
        s1 == releaseWakeLock(s0)
        s2 == setStatusText(s1, "Success")
    IN  [s2 EXCEPT !.successShown = TRUE, !.finishCalls = @ + 1]

resetSession_KeepsProgress(s, isCompleted) ==
    LET s1 == IF s.animationFrameId # NO_HANDLE
              THEN [cancelAnimationFrame(s, s.animationFrameId)
                       EXCEPT !.animationFrameId = NO_HANDLE]
              ELSE s
        s2 == [releaseWakeLock(s1) EXCEPT !.currentState = IDLE,
                         !.phaseWrites = @ + 1,
                         !.repCount = 0,
                         !.timeRemainingWhenPaused = 0,
                         !.sessionTimeRemainingWhenPaused = 0,
                         !.lastPlayedSubPhase = NULL,
                         !.sessionStartTime = 0,
                         !.successShown = FALSE]
    IN  IF isCompleted THEN setStatusText(s2, "Session<br>Complete!")
        ELSE setStatusText(s2, "Ready")

resetSession(s, isCompleted) ==
    LET s1 == IF s.animationFrameId # NO_HANDLE
              THEN [cancelAnimationFrame(s, s.animationFrameId)
                       EXCEPT !.animationFrameId = NO_HANDLE]
              ELSE s
        s2 == [releaseWakeLock(s1) EXCEPT !.currentState = IDLE,
                         !.phaseWrites = @ + 1,
                         !.repCount = 0,
                         !.timeRemainingWhenPaused = 0,
                         !.sessionTimeRemainingWhenPaused = 0,
                         !.setProgress = [i \in 0..4 |-> 0],
                         !.lastPlayedSubPhase = NULL,
                         !.sessionStartTime = 0,
                         !.successShown = FALSE]
    IN  IF isCompleted THEN setStatusText(s2, "Session<br>Complete!")
        ELSE setStatusText(s2, "Ready")

\* `Long Rest (Set ${repCount / 5} Complete)`; n / 5 has at most one decimal
BreakMessage(n) ==
    "Long Rest (Set " \o ToString(n \div 5)
    \o (IF n % 5 = 0 THEN "" ELSE "." \o ToString(2 * (n % 5)))
    \o " Complete)"

(***************************************************************************)
(* The state machine                                                       *)
(***************************************************************************)
\* line 791: the rep just counted completes a set
IsSetBoundary(n) == n % 5 = 0

SessionComplete_OffByOne(n) == n > TOTAL_REPS

\* lines 723 and 794: all reps are done
SessionComplete(n) == n >= TOTAL_REPS

\* lines 748-757 of nextState: enter nextPhase at time t
EnterPhase(s, nextPhase, t) ==
    LET s1 == [s EXCEPT !.currentState = nextPhase,
                        !.phaseStartTime = t,
                        !.phaseWrites = @ + 1,
                        !.lastPlayedSubPhase = NULL]
    IN  IF nextPhase = LONG_BREAK
        THEN setStatusText(s1, BreakMessage(s1.repCount))
        ELSE s1

nextState(s0, t) ==
    LET s == [s0 EXCEPT !.nextStateCalls = @ + 1]
    IN
    CASE s.currentState = ACTIVE_REP ->
            LET currentSetIndex == SetIndex(s.repCount)
                currentRepInSet == RepInSet(s.repCount)
                s1 == IF currentSetIndex < 5
                      THEN [s EXCEPT !.setProgress =
                               WriteSetProgress(@, currentSetIndex, currentRepInSet)]
                      ELSE s
            IN  IF SessionComplete(s1.repCount) THEN finishSession(s1)
                ELSE IF s1.repCount % 5 = 0 THEN EnterPhase(s1, LONG_BREAK, t)
                ELSE EnterPhase(s1, ACTIVE_REP, t)
      [] s.currentState = LONG_BREAK -> EnterPhase(s, ACTIVE_REP, t)
      [] s.currentState = IDLE -> EnterPhase(s, ACTIVE_REP, t)
      [] OTHER -> resetSession(s, FALSE)

\* the sub-phase of an active rep after elapsedMs
SubPhaseOf_EdgesInclusive(elapsedMs) ==
    IF elapsedMs <= INHALE_END_MS THEN INHALE
    ELSE IF elapsedMs <= EXHALE_END_MS THEN EXHALE
    ELSE REST

SubPhaseOf(elapsedMs) ==
    IF elapsedMs < INHALE_END_MS THEN INHALE
    ELSE IF elapsedMs < EXHALE_END_MS THEN EXHALE
    ELSE REST

\* lines 812-821: chime and status line of the sub-phase
AnnounceSubPhase(s, subPhase) ==
    LET s1 == playTransitionChime(s, subPhase)
        displayText == IF subPhase = EXHALE THEN "Exhale Quickly"
                       ELSE IF subPhase = REST THEN "Rest & Recover"
                       ELSE INHALE
    IN  setStatusText(s1, displayText)

EnterLongBreak_KeepsPhaseStart(s, t) ==
    LET s1 == [s EXCEPT !.currentState = LONG_BREAK,
                        !.phaseWrites = @ + 1,
                        !.lastPlayedSubPhase = NULL]
        s2 == setStatusText(s1, BreakMessage(s1.repCount))
    IN  requestAnimationFrame(s2)

\* lines 799-806: the long break begins at time t, and tick is requested
EnterLongBreak(s, t) ==
    LET s1 == [s EXCEPT !.currentState = LONG_BREAK,
                        !.phaseStartTime = t,
                        !.phaseWrites = @ + 1,
                        !.lastPlayedSubPhase = NULL]
        s2 == setStatusText(s1, BreakMessage(s1.repCount))
    IN  requestAnimationFrame(s2)

\* lines 782-788: count the rep and show it in its set box
CountRep(s) ==
    LET n == s.repCount + 1
        currentSetIndex == SetIndex(n)
        currentRepInSet == RepInSet(n)
        s1 == [s EXCEPT !.repCount = n]
    IN  IF currentSetIndex < 5
        THEN [s1 EXCEPT !.setProgress =
                 WriteSetProgress(@, currentSetIndex, currentRepInSet)]
        ELSE s1

\* history: the call, the sub-phase it derives, lastPlayedSubPhase on entry
RecordEvaluation(s, elapsedMs) ==
    [s EXCEPT !.evaluations =
        Append(@, [elapsedMs |-> elapsedMs,
                   subPhase |-> SubPhaseOf(elapsedMs),
                   lastPlayed |-> s.lastPlayedSubPhase,
                   repDurationMs |-> s.PHASE_DURATIONS_MS[ACTIVE_REP]])]

updateActiveRepStatus(s0, elapsedMs, t) ==
    LET subPhase == SubPhaseOf(elapsedMs)
        s == RecordEvaluation(s0, elapsedMs)
    IN  IF subPhase = REST /\ s.lastPlayedSubPhase # REST
        THEN LET s2 == CountRep(s)
             IN  IF IsSetBoundary(s2.repCount)
                 THEN LET s3 == [cancelAnimationFrame(s2, s2.animationFrameId)
                                    EXCEPT !.animationFrameId = NO_HANDLE]
                      IN  IF SessionComplete(s3.repCount) THEN finishSession(s3)
                          ELSE IF s3.repCount < TOTAL_REPS THEN EnterLongBreak(s3, t)
                          ELSE AnnounceSubPhase(s3, subPhase)
                 ELSE AnnounceSubPhase(s2, subPhase)
        ELSE AnnounceSubPhase(s, subPhase)

\* animationFrameId = requestAnimationFrame(tick)
ScheduleTick(s) ==
    LET h == NewHandle(s)
    IN  [requestAnimationFrame(s) EXCEPT !.animationFrameId = h]

tick_ExpiresLate(s, t) ==
    IF s.currentState = IDLE \/ s.currentState = PAUSED THEN s
    ELSE LET elapsed == t - s.phaseStartTime
             duration == s.PHASE_DURATIONS_MS[s.currentState]
             remaining == duration - elapsed
             s1 == IF remaining < 0 THEN nextState(s, t)
                   ELSE IF s.currentState = ACTIVE_REP
                        THEN updateActiveRepStatus(s, elapsed, t)
                        ELSE s
         IN  ScheduleTick(s1)

\* history: what the run of tick that took s0 to s1 did
LogTick(s0, s1) ==
    [s1 EXCEPT !.tickLog =
        Append(@, [state |-> s0.currentState,
                   nextStates |-> s1.nextStateCalls - s0.nextStateCalls,
                   evaluations |-> Len(s1.evaluations) - Len(s0.evaluations),
                   phaseWrites |-> s1.phaseWrites - s0.phaseWrites])]

tick_ReschedulesWhenStopped(s, t) ==
    IF s.currentState = IDLE \/ s.currentState = PAUSED THEN LogTick(s, ScheduleTick(s))
    ELSE LET elapsed == t - s.phaseStartTime
             duration == s.PHASE_DURATIONS_MS[s.currentState]
             remaining == duration - elapsed
             s1 == IF remaining <= 0 THEN nextState(s, t)
                   ELSE IF s.currentState = ACTIVE_REP
                        THEN updateActiveRepStatus(s, elapsed, t)
                        ELSE s
         IN  LogTick(s, ScheduleTick(s1))

tick_EvaluatesAfterNextState(s, t) ==
    IF s.currentState = IDLE \/ s.currentState = PAUSED THEN LogTick(s, s)
    ELSE LET elapsed == t - s.phaseStartTime
             duration == s.PHASE_DURATIONS_MS[s.currentState]
             remaining == duration - elapsed
             s1 == IF remaining <= 0 THEN nextState(s, t) ELSE s
             s2 == IF s1.currentState = ACTIVE_REP
                   THEN updateActiveRepStatus(s1, elapsed, t)
                   ELSE s1
         IN  LogTick(s, ScheduleTick(s2))

tick(s, t) ==
    IF s.currentState = IDLE \/ s.currentState = PAUSED THEN LogTick(s, s)
    ELSE LET elapsed == t - s.phaseStartTime
             duration == s.PHASE_DURATIONS_MS[s.currentState]
             remaining == duration - elapsed
             s1 == IF remaining <= 0 THEN nextState(s, t)
                   ELSE IF s.currentState = ACTIVE_REP
                        THEN updateActiveRepStatus(s, elapsed, t)
                        ELSE s
         IN  LogTick(s, ScheduleTick(s1))

(***************************************************************************)
(* Start, pause, resume                                                    *)
(***************************************************************************)
startSession(s, t) ==
    IF s.currentState # IDLE THEN s
    ELSE LET s1 == requestWakeLock(initAudio(s))
             s2 == [s1 EXCEPT !.sessionStartTime = t]
         IN  ScheduleTick(nextState(s2, t))

pauseTimer_RecordsAfterPausing(s, t) ==
    [s EXCEPT !.timeRemainingWhenPaused =
                  s.PHASE_DURATIONS_MS[s.currentState] - (t - s.phaseStartTime),
              !.activeStateBeforePause = PAUSED,
              !.currentState = PAUSED]

pauseTimer(s, t) ==
    LET s0 == IF s.animationFrameId # NO_HANDLE
              THEN [cancelAnimationFrame(s, s.animationFrameId)
                       EXCEPT !.animationFrameId = NO_HANDLE]
              ELSE s
        s1 == releaseWakeLock(s0)
        elapsedSincePhaseStart == t - s1.phaseStartTime
        duration == s1.PHASE_DURATIONS_MS[s1.currentState]
        sessionRemaining == s1.totalSessionDurationMs - (t - s1.sessionStartTime)
        s2 == [s1 EXCEPT !.timeRemainingWhenPaused = duration - elapsedSincePhaseStart,
                         !.sessionTimeRemainingWhenPaused =
                              IF sessionRemaining < 0 THEN 0 ELSE sessionRemaining,
                         !.activeStateBeforePause = s1.currentState,
                         !.currentState = PAUSED,
                         !.phaseWrites = @ + 1,
                         !.lastPlayedSubPhase = NULL]
    IN  setStatusText(s2, "Session Paused.<br>Click 'Resume' to Continue.")

RestoredStart_KeepsElapsed(t, durationMs, remainingMs) == t - remainingMs

\* lines 922 and 927: the start time that leaves remainingMs of durationMs at t
RestoredStart(t, durationMs, remainingMs) == t - (durationMs - remainingMs)

resumeTimer(s, t) ==
    LET restored == s.activeStateBeforePause
        duration == s.PHASE_DURATIONS_MS[restored]
        s1 == [requestWakeLock(s) EXCEPT !.currentState = restored,
                        !.phaseWrites = @ + 1,
                        !.phaseStartTime =
                            RestoredStart(t, duration, s.timeRemainingWhenPaused),
                        !.timeRemainingWhenPaused = 0,
                        !.sessionStartTime =
                            RestoredStart(t, s.totalSessionDurationMs,
                                          s.sessionTimeRemainingWhenPaused)]
        s2 == IF restored = LONG_BREAK
              THEN setStatusText(s1, BreakMessage(s1.repCount))
              ELSE IF restored = ACTIVE_REP
                   THEN updateActiveRepStatus(s1, t - s1.phaseStartTime, t)
                   ELSE s1
    IN  ScheduleTick(s2)

handleRestDurationChange_NoReset(s, value) ==
    LET newDurationMs == IF value = "30" THEN REP_DURATION_30_MS ELSE REP_DURATION_15_MS
        s2 == [s EXCEPT !.currentRepDurationMs = newDurationMs,
                        !.PHASE_DURATIONS_MS[ACTIVE_REP] = newDurationMs]
    IN  calculateTotalDuration(s2, s2.currentRepDurationMs)

handleRestDurationChange(s, value) ==
    LET newDurationMs == IF value = "30" THEN REP_DURATION_30_MS ELSE REP_DURATION_15_MS
        s1 == IF s.currentState # IDLE
              THEN setStatusText(resetSession(s, FALSE),
                     "Duration Changed. Session Was Reset. Press 'Start Session' to Begin.")
              ELSE s
        s2 == [s1 EXCEPT !.currentRepDurationMs = newDurationMs,
                         !.PHASE_DURATIONS_MS[ACTIVE_REP] = newDurationMs]
    IN  calculateTotalDuration(s2, s2.currentRepDurationMs)

(***************************************************************************)
(* Event listeners                                                         *)
(***************************************************************************)
startButtonClick_Unguarded(s, t) ==
    ScheduleTick(nextState([requestWakeLock(initAudio(s))
                               EXCEPT !.sessionStartTime = t], t))

startButtonClick(s, t) ==
    IF s.currentState = IDLE THEN startSession(s, t) ELSE s

pauseResumeButtonClick(s, t) ==
    IF s.currentState = PAUSED THEN resumeTimer(s, t)
    ELSE IF s.currentState # IDLE THEN pauseTimer(s, t)
    ELSE s

resetButtonClick_RecordsState(s, t) ==
    IF s.currentState # IDLE
    THEN LET s1 == [s EXCEPT !.wasRunningBeforeModal = (s.currentState # PAUSED),
                             !.activeStateBeforePause = s.currentState]
         IN  IF s1.wasRunningBeforeModal THEN pauseTimer(s1, t) ELSE s1
    ELSE s

resetButtonClick(s, t) ==
    IF s.currentState # IDLE
    THEN LET s1 == [s EXCEPT !.wasRunningBeforeModal = (s.currentState # PAUSED)]
         IN  IF s1.wasRunningBeforeModal THEN pauseTimer(s1, t) ELSE s1
    ELSE s

confirmResetButtonClick(s) ==
    [resetSession(s, FALSE) EXCEPT !.wasRunningBeforeModal = FALSE]

cancelResetButtonClick(s, t) ==
    [(IF s.wasRunningBeforeModal THEN resumeTimer(s, t) ELSE s)
        EXCEPT !.wasRunningBeforeModal = FALSE]

newSessionButtonClick(s) == resetSession(s, FALSE)

(***************************************************************************)
(* One animation frame: the browser runs, oldest first, the callbacks that *)
(* were pending when the frame began; a callback cancelled meanwhile is    *)
(* skipped, one requested meanwhile waits for the next frame.              *)
(***************************************************************************)
RECURSIVE RunCallbacks(_, _, _)
RunCallbacks(s, handles, t) ==
    IF handles = <<>> THEN s
    ELSE LET h == Head(handles)
         IN  IF h \in Range(s.rafCallbacks)
             THEN RunCallbacks(tick(cancelAnimationFrame(s, h), t), Tail(handles), t)
             ELSE RunCallbacks(s, Tail(handles), t)

runAnimationFrame(s, t) == RunCallbacks(s, s.rafCallbacks, t)

\* Handles are only ever compared: renumber the pending ones 1..n in order.
\* A handle in animationFrameId that is no longer pending becomes n + 1.
Position(q, h) == CHOOSE i \in 1..Len(q) : q[i] = h

Canon(s) ==
    LET q == s.rafCallbacks
        id == IF s.animationFrameId = NO_HANDLE THEN NO_HANDLE
              ELSE IF s.animationFrameId \in Range(q) THEN Position(q, s.animationFrameId)
              ELSE Len(q) + 1
    IN  [s EXCEPT !.rafCallbacks = [i \in 1..Len(q) |-> i],
                  !.animationFrameId = id,
                  !.rafLastHandle = IF id > Len(q) THEN id ELSE Len(q)]

\* the next state is the record r
Becomes(r) ==
    LET c == Canon(r)
    IN  /\ Len(c.rafCallbacks) <= MaxCallbacks
        /\ currentState' = c.currentState
        /\ animationFrameId' = c.animationFrameId
        /\ repCount' = c.repCount
        /\ phaseStartTime' = c.phaseStartTime
        /\ sessionStartTime' = c.sessionStartTime
        /\ timeRemainingWhenPaused' = c.timeRemainingWhenPaused
        /\ sessionTimeRemainingWhenPaused' = c.sessionTimeRemainingWhenPaused
        /\ setProgress' = c.setProgress
        /\ activeStateBeforePause' = c.activeStateBeforePause
        /\ wasRunningBeforeModal' = c.wasRunningBeforeModal
        /\ lastPlayedSubPhase' = c.lastPlayedSubPhase
        /\ currentRepDurationMs' = c.currentRepDurationMs
        /\ PHASE_DURATIONS_MS' = c.PHASE_DURATIONS_MS
        /\ totalSessionDurationMs' = c.totalSessionDurationMs
        /\ audioContext' = c.audioContext
        /\ statusText' = c.statusText
        /\ rafCallbacks' = c.rafCallbacks
        /\ rafLastHandle' = c.rafLastHandle
        /\ c.wakeLockRequests <= MaxWakeLockRequests
        /\ c.wakeLockReleaseEvents <= MaxWakeLockEvents
        /\ c.wakeLocksLeaked <= MaxWakeLocksLeaked
        /\ wakeLockSupported' = c.wakeLockSupported
        /\ wakeLockSentinel' = c.wakeLockSentinel
        /\ wakeLockRequests' = c.wakeLockRequests
        /\ wakeLockReleaseEvents' = c.wakeLockReleaseEvents
        /\ wakeLocksLeaked' = c.wakeLocksLeaked
        /\ successShown' = c.successShown
        /\ tonesPlayed' = c.tonesPlayed
        /\ evaluations' = c.evaluations
        /\ statusUpdates' = c.statusUpdates
        /\ finishCalls' = c.finishCalls
        /\ tickLog' = c.tickLog

(***************************************************************************)
(* Initial state: the page has loaded and run lines 997-1003               *)
(***************************************************************************)
Loaded ==
    /\ now = ClockStartS * 1000
    /\ currentState = IDLE
    /\ animationFrameId = NO_HANDLE
    /\ repCount = 0
    /\ phaseStartTime = 0
    /\ sessionStartTime = 0
    /\ timeRemainingWhenPaused = 0
    /\ sessionTimeRemainingWhenPaused = 0
    /\ setProgress = [i \in 0..4 |-> 0]
    /\ activeStateBeforePause = ACTIVE_REP
    /\ wasRunningBeforeModal = FALSE
    /\ lastPlayedSubPhase = NULL
    /\ currentRepDurationMs = REP_DURATION_15_MS
    /\ PHASE_DURATIONS_MS = [p \in {ACTIVE_REP, LONG_BREAK} |->
                               IF p = ACTIVE_REP THEN REP_DURATION_15_MS
                               ELSE LONG_BREAK_DURATION_MS]
    /\ totalSessionDurationMs =
           (FULL_REPS * REP_DURATION_15_MS) + FIXED_BREAK_MS + PARTIAL_REPS_MS
    /\ audioContext = FALSE
    /\ statusText = "Please make sure your sound is ON ..."
    /\ rafCallbacks = <<>>
    /\ rafLastHandle = 0
    /\ wakeLockSentinel = NULL
    /\ wakeLockRequests = 0
    /\ wakeLockReleaseEvents = 0
    /\ wakeLocksLeaked = 0
    /\ successShown = FALSE
    /\ tonesPlayed = <<>>
    /\ evaluations = <<>>
    /\ statusUpdates = 0
    /\ finishCalls = 0
    /\ tickLog = <<>>
    /\ clicks = 0
    /\ lastEvent = "load"
    /\ restTicked = FALSE
    /\ pausedInCountedRest = FALSE
    /\ prevState = IDLE
    /\ prevRepCount = 0
    /\ repCountAtPhaseStart = 0
    /\ breaksTaken = {}

\* a browser without the Screen Wake Lock API: lines 237-253 are skipped
Init ==
    /\ Loaded
    /\ wakeLockSupported = FALSE

\* a browser with the Screen Wake Lock API
InitWakeLock ==
    /\ Loaded
    /\ wakeLockSupported = TRUE

(***************************************************************************)
(* Actions                                                                 *)
(***************************************************************************)
\* Date.now() - phaseStartTime
Elapsed == now - phaseStartTime

\* a tick that runs now evaluates the Rest span of the running rep
InRestSpan ==
    /\ currentState = ACTIVE_REP
    /\ Elapsed >= EXHALE_END_MS
    /\ Elapsed < PHASE_DURATIONS_MS[ACTIVE_REP]

\* the step leaves the session in the phase it was in: nothing moved, or the
\* session was paused, or it was resumed into the phase it was paused in
SamePhase ==
    \/ currentState' = currentState /\ phaseStartTime' = phaseStartTime
    \/ currentState' = PAUSED /\ currentState # IDLE
    \/ /\ currentState = PAUSED
       /\ currentState' = activeStateBeforePause
       /\ PHASE_DURATIONS_MS'[currentState'] - (now - phaseStartTime')
              = timeRemainingWhenPaused

\* the step begins a long break
EntersLongBreak ==
    /\ currentState' = LONG_BREAK
    /\ ~SamePhase

\* history: restTicked holds from the first tick that evaluates the Rest span
\* of a phase until the phase ends or is interrupted
TrackPhase(isFrame) ==
    /\ repCountAtPhaseStart' = IF SamePhase THEN repCountAtPhaseStart ELSE repCount'
    /\ breaksTaken' = IF currentState' = IDLE THEN {}
                      ELSE IF EntersLongBreak THEN breaksTaken \cup {repCount'}
                      ELSE breaksTaken
    /\ restTicked' = IF currentState' = currentState /\ phaseStartTime' = phaseStartTime
                     THEN restTicked \/ (isFrame /\ InRestSpan)
                     ELSE FALSE
    /\ pausedInCountedRest' =
          IF currentState' # PAUSED THEN FALSE
          ELSE IF currentState = PAUSED THEN pausedInCountedRest
          ELSE currentState = ACTIVE_REP /\ lastPlayedSubPhase = REST
    /\ prevState' = currentState
    /\ prevRepCount' = repCount

\* Time passes: d ms until the next event, nothing of the program runs.
\* The program only ever computes differences between Date.now() and the
\* timestamps it stored, and an idle page with no callback pending stores
\* none that it reads again: no time passes there.
Advance(steps, limitS) ==
    \E d \in steps :
        /\ currentState # IDLE \/ rafCallbacks # <<>>
        /\ now + d <= limitS * 1000
        /\ now' = now + d
        /\ tonesPlayed' = <<>>
        /\ evaluations' = <<>>
        /\ statusUpdates' = 0
        /\ finishCalls' = 0
        /\ tickLog' = <<>>
        /\ lastEvent' = "time"
        /\ UNCHANGED <<currentState, animationFrameId, repCount, phaseStartTime,
                       sessionStartTime, timeRemainingWhenPaused,
                       sessionTimeRemainingWhenPaused, setProgress,
                       activeStateBeforePause, wasRunningBeforeModal,
                       lastPlayedSubPhase, currentRepDurationMs, PHASE_DURATIONS_MS,
                       totalSessionDurationMs, audioContext, statusText,
                       rafCallbacks, rafLastHandle, successShown, clicks,
                       wakeLockSupported, wakeLockSentinel, wakeLockRequests,
                       wakeLockReleaseEvents, wakeLocksLeaked,
                       restTicked, pausedInCountedRest, repCountAtPhaseStart,
                       breaksTaken>>
        /\ prevState' = currentState
        /\ prevRepCount' = repCount

\* the time between two consecutive events is 0 or one of Steps
TimePasses ==
    /\ lastEvent # "time"
    /\ Advance(Steps, MaxNowS)

AnimationFrame ==
    /\ rafCallbacks # <<>>
    /\ Becomes(runAnimationFrame(S, now))
    /\ lastEvent' = "frame"
    /\ TrackPhase(TRUE)
    /\ UNCHANGED <<now, clicks>>

\* the user presses a button: the handler of the button runs
Click(limit, button, r) ==
    /\ clicks < limit
    /\ clicks' = clicks + 1
    /\ Becomes(r)
    /\ lastEvent' = button
    /\ TrackPhase(FALSE)
    /\ UNCHANGED now

ClickStart == Click(MaxClicks, "start", startButtonClick(S, now))

ClickPauseResume == Click(MaxClicks, "pauseResume", pauseResumeButtonClick(S, now))

ClickReset == Click(MaxClicks, "reset", resetButtonClick(S, now))

ClickConfirmReset == Click(MaxClicks, "confirmReset", confirmResetButtonClick(S))

ClickCancelReset == Click(MaxClicks, "cancelReset", cancelResetButtonClick(S, now))

ClickNewSession == Click(MaxClicks, "newSession", newSessionButtonClick(S))

ChangeDuration == \E value \in {"15", "30"} : Click(MaxClicks, "duration", handleRestDurationChange(S, value))

Next ==
    \/ TimePasses
    \/ AnimationFrame
    \/ ClickStart
    \/ ClickPauseResume
    \/ ClickReset
    \/ ClickConfirmReset
    \/ ClickCancelReset
    \/ ClickNewSession
    \/ ChangeDuration

Spec == Init /\ [][Next]_vars

(***************************************************************************)
(* A session left alone: the duration is chosen on the setup screen, the   *)
(* session is started, and then only time passes and frames run.           *)
(***************************************************************************)
RunChooseDuration ==
    /\ currentState = IDLE
    /\ rafCallbacks = <<>>
    /\ \E value \in {"15", "30"} : Becomes(handleRestDurationChange(S, value))
    /\ lastEvent' = "duration"
    /\ TrackPhase(FALSE)
    /\ UNCHANGED <<now, clicks>>

RunStart ==
    /\ currentState = IDLE
    /\ Becomes(startButtonClick(S, now))
    /\ lastEvent' = "start"
    /\ TrackPhase(FALSE)
    /\ UNCHANGED <<now, clicks>>

\* the user leaves the success screen with the New Session button
RunNewSession ==
    /\ successShown
    /\ Becomes(newSessionButtonClick(S))
    /\ lastEvent' = "newSession"
    /\ TrackPhase(FALSE)
    /\ UNCHANGED <<now, clicks>>

\* the time between two consecutive events is 0 or one of Steps
RunTimePasses ==
    /\ lastEvent # "time"
    /\ Advance(Steps, MaxRunS)

NextRun ==
    \/ RunChooseDuration
    \/ RunStart
    \/ RunTimePasses
    \/ AnimationFrame
    \/ RunNewSession

SpecRun == Init /\ [][NextRun]_vars

(***************************************************************************)
(* A session of 15 s reps that the user pauses and resumes, with the       *)
(* Pause/Resume button or by opening the reset dialog, which they cancel   *)
(* or confirm.                                                             *)
(***************************************************************************)
PauseTimePasses ==
    /\ lastEvent # "time"
    /\ Advance(PauseSteps, MaxPauseS)

PausePauseResume == Click(MaxPauseClicks, "pauseResume", pauseResumeButtonClick(S, now))

PauseReset == Click(MaxPauseClicks, "reset", resetButtonClick(S, now))

PauseCancelReset == Click(MaxPauseClicks, "cancelReset", cancelResetButtonClick(S, now))

PauseConfirmReset == Click(MaxPauseClicks, "confirmReset", confirmResetButtonClick(S))

NextPause ==
    \/ RunStart
    \/ PauseTimePasses
    \/ AnimationFrame
    \/ PausePauseResume
    \/ PauseReset
    \/ PauseCancelReset
    \/ PauseConfirmReset

SpecPause == Init /\ [][NextPause]_vars

(***************************************************************************)
(* A session of 15 s reps in a browser with the Screen Wake Lock API: the  *)
(* platform answers the requests, may revoke a held lock at any time, and  *)
(* delivers the 'release' events, each as a task of its own.               *)
(***************************************************************************)
\* the pauses are short: no time passes in one; a session in which a button
\* was pressed is followed for MaxNowS seconds, one left alone to its end
WakeTimePasses ==
    /\ lastEvent # "time"
    /\ currentState # PAUSED
    /\ Advance(PauseSteps, IF clicks = 0 THEN MaxWakeS ELSE MaxNowS)

WakeClick(button, r) ==
    /\ now <= MaxWakeClickS * 1000
    /\ Click(MaxWakeClicks, button, r)

\* the platform is not a button: no click is counted; its events are
\* handled right after the frame or the click they follow
Platform(event, r) ==
    /\ lastEvent # "time"
    /\ Becomes(r)
    /\ lastEvent' = event
    /\ TrackPhase(FALSE)
    /\ UNCHANGED <<now, clicks>>

WakeLockGranted ==
    /\ wakeLockRequests > 0
    /\ Platform("wakeLockGranted", wakeLockGranted(S))

WakeLockDenied ==
    /\ wakeLockRequests > 0
    /\ Platform("wakeLockDenied", wakeLockDenied(S))

\* the platform revokes a held lock (the page is hidden, the battery is low)
WakeLockRevoked ==
    \/ /\ wakeLockSentinel = HELD
       /\ Platform("wakeLockRevoked",
                   [S EXCEPT !.wakeLockSentinel = RELEASED,
                             !.wakeLockReleaseEvents = @ + 1])
    \/ /\ wakeLocksLeaked > 0
       /\ Platform("wakeLockRevoked",
                   [S EXCEPT !.wakeLocksLeaked = @ - 1,
                             !.wakeLockReleaseEvents = @ + 1])

WakeLockReleaseEvent ==
    /\ wakeLockReleaseEvents > 0
    /\ Platform("wakeLockRelease", wakeLockReleased(S))

WakePauseResume == WakeClick("pauseResume", pauseResumeButtonClick(S, now))

WakeReset == WakeClick("reset", resetButtonClick(S, now))

WakeConfirmReset == WakeClick("confirmReset", confirmResetButtonClick(S))

NextWakeLock ==
    \/ RunStart
    \/ WakeTimePasses
    \/ AnimationFrame
    \/ WakePauseResume
    \/ WakeReset
    \/ WakeConfirmReset
    \/ RunNewSession
    \/ WakeLockGranted
    \/ WakeLockDenied
    \/ WakeLockRevoked
    \/ WakeLockReleaseEvent

SpecWakeLock == InitWakeLock /\ [][NextWakeLock]_vars

(***************************************************************************)
(* A session of 15 s reps left alone for ever.  The program only ever uses *)
(* the differences between Date.now() and the timestamps it stored, so the *)
(* passing of d ms is the stored timestamps falling back by d ms; the      *)
(* session's total time remaining is clamped at 0 (line 849), so           *)
(* sessionStartTime falls back no further than the total duration.  The    *)
(* browser keeps running the frames it was asked for and the clock keeps   *)
(* advancing: both are weakly fair.  Once a phase is over tick only tests  *)
(* remaining <= 0 (line 837), so phaseStartTime falls back no further than *)
(* 15 s beyond the phase duration.                                         *)
(***************************************************************************)
LiveAdvance(steps) ==
    /\ lastEvent # "time"
    /\ currentState # IDLE
    /\ \E d \in steps :
          /\ phaseStartTime' =
                IF Elapsed + d > PHASE_DURATIONS_MS[currentState] + REP_DURATION_15_MS
                THEN now - (PHASE_DURATIONS_MS[currentState] + REP_DURATION_15_MS)
                ELSE phaseStartTime - d
          /\ sessionStartTime' =
                IF now - (sessionStartTime - d) > totalSessionDurationMs
                THEN now - totalSessionDurationMs
                ELSE sessionStartTime - d
    /\ tonesPlayed' = <<>>
    /\ evaluations' = <<>>
    /\ statusUpdates' = 0
    /\ finishCalls' = 0
    /\ tickLog' = <<>>
    /\ lastEvent' = "time"
    /\ prevState' = currentState
    /\ prevRepCount' = repCount
    /\ UNCHANGED <<now, currentState, animationFrameId, repCount,
                   timeRemainingWhenPaused, sessionTimeRemainingWhenPaused,
                   setProgress, activeStateBeforePause, wasRunningBeforeModal,
                   lastPlayedSubPhase, currentRepDurationMs, PHASE_DURATIONS_MS,
                   totalSessionDurationMs, audioContext, statusText,
                   rafCallbacks, rafLastHandle, successShown, clicks,
                   wakeLockSupported, wakeLockSentinel, wakeLockRequests,
                   wakeLockReleaseEvents, wakeLocksLeaked, restTicked,
                   pausedInCountedRest, repCountAtPhaseStart, breaksTaken>>

LiveTimePasses == LiveAdvance(LiveSteps)

\* a step is a frame exactly if it sets lastEvent to "frame": once time has
\* passed with a tick requested, the browser runs the frame
FrameRuns ==
    /\ rafCallbacks # <<>>
    /\ lastEvent' = "frame"

NextLive ==
    \/ RunStart
    \/ LiveTimePasses
    \/ AnimationFrame

SpecLive ==
    /\ Init
    /\ [][NextLive]_vars
    /\ WF_vars(LiveTimePasses)
    /\ WF_lastEvent(FrameRuns)

\* the same with a frame at least every 12 s
SteadyTimePasses == LiveAdvance(PauseSteps)

NextSteady ==
    \/ RunStart
    \/ SteadyTimePasses
    \/ AnimationFrame

SpecSteady ==
    /\ Init
    /\ [][NextSteady]_vars
    /\ WF_vars(SteadyTimePasses)
    /\ WF_lastEvent(FrameRuns)

(***************************************************************************)
(* One rep of either duration, with frames a millisecond before, at and    *)
(* after the edges of its sub-phases.                                      *)
(***************************************************************************)
SubPhaseTimePasses ==
    /\ lastEvent # "time"
    /\ Advance(SubPhaseSteps, MaxSubPhaseS)

NextSubPhase ==
    \/ RunChooseDuration
    \/ RunStart
    \/ SubPhaseTimePasses
    \/ AnimationFrame

SpecSubPhase == Init /\ [][NextSubPhase]_vars

(***************************************************************************)
(* Properties                                                              *)
(***************************************************************************)

\* C1: between a start and the next reset finishSession runs exactly once:
\* a step runs it at most once, and never while the success screen of an
\* earlier run of it is still up (resetSession alone takes that screen down).
C1_FinishExactlyOnce ==
    [][finishCalls' > 0 => (finishCalls' = 1 /\ ~successShown)]_vars

\* C2: once finishSession has run no tick callback stays scheduled, and a
\* frame that runs before the next reset changes none of repCount,
\* setProgress, currentState, phaseStartTime, lastPlayedSubPhase and emits
\* no tone and no status update.
C2_TickingStopsAfterFinish ==
    [][/\ successShown' => rafCallbacks' = <<>>
       /\ (successShown /\ lastEvent' = "frame") =>
             /\ UNCHANGED <<repCount, setProgress, currentState,
                            phaseStartTime, lastPlayedSubPhase>>
             /\ tonesPlayed' = <<>>
             /\ statusUpdates' = 0]_vars

\* C3: in every reachable state 0 <= repCount <= TOTAL_REPS.
C3_RepCountInRange == 0 <= repCount /\ repCount <= TOTAL_REPS

\* C5: within one ActiveRep phase the first tick that evaluates the Rest span
\* (3000 ms <= elapsed < rep duration) raises repCount by exactly 1 and every
\* later tick of that phase leaves repCount unchanged.
C5_OneCountPerRestSpan ==
    [][(lastEvent' = "frame" /\ InRestSpan) =>
          repCount' = repCount + (IF restTicked THEN 0 ELSE 1)]_vars

\* C6: a step that raises repCount to a multiple of 5 below 25 ends in
\* LONG_BREAK with phaseStartTime = Date.now().
C6_SetBoundaryEntersLongBreak ==
    [][(repCount' > repCount /\ repCount' % 5 = 0 /\ repCount' < TOTAL_REPS) =>
          (currentState' = LONG_BREAK /\ phaseStartTime' = now')]_vars

C6_Witness ==
    /\ lastEvent = "frame"
    /\ repCount \in {5, 10, 15, 20}
    /\ currentState = LONG_BREAK
    /\ phaseStartTime = now
    /\ setProgress[SetIndex(repCount)] = 5

\* C7: the step that takes repCount from below 25 to 25 runs finishSession,
\* although time of the ActiveRep phase remains, and does not enter LONG_BREAK.
C7_FinishAtRestEntryOf25 ==
    [][(repCount < TOTAL_REPS /\ repCount' >= TOTAL_REPS) =>
          /\ finishCalls' = 1
          /\ currentState' # LONG_BREAK
          /\ now' - phaseStartTime' < PHASE_DURATIONS_MS'[ACTIVE_REP]]_vars

C7_Witness ==
    /\ lastEvent = "frame"
    /\ repCount = TOTAL_REPS
    /\ finishCalls = 1
    /\ successShown
    /\ currentState = ACTIVE_REP
    /\ Elapsed >= EXHALE_END_MS
    /\ Elapsed < PHASE_DURATIONS_MS[ACTIVE_REP]

\* a step in which resumeTimer brings a paused session back
Resumes ==
    /\ currentState = PAUSED
    /\ lastEvent' \in {"pauseResume", "cancelReset"}
    /\ currentState' # PAUSED

\* C4: a session paused in a Rest sub-phase whose rep was already counted
\* and then resumed, with the Pause/Resume button or by cancelling the reset
\* dialog, has the repCount and setProgress it had before the pause.
C4_ResumeDoesNotCountAgain ==
    [][(Resumes /\ pausedInCountedRest) =>
          (repCount' = repCount /\ setProgress' = setProgress)]_vars

\* time left of the running phase and of the session
PhaseRemaining == PHASE_DURATIONS_MS[currentState] - (now - phaseStartTime)

SessionRemaining == totalSessionDurationMs - (now - sessionStartTime)

\* C8: right after a resume the time left of the phase equals
\* timeRemainingWhenPaused and the time left of the session equals
\* sessionTimeRemainingWhenPaused, however long the pause lasted.
C8_ResumeKeepsRemainingTimes ==
    [][Resumes =>
          /\ PhaseRemaining' = timeRemainingWhenPaused
          /\ SessionRemaining' = sessionTimeRemainingWhenPaused]_vars

\* C8 amended: the time left of the session always equals the captured one,
\* and the time left of the phase equals the captured one unless the
\* sub-phase evaluation of resumeTimer itself began a long break, in which
\* case the whole long break is left.
C8_ResumeKeepsRemainingTimesOfSamePhase ==
    [][Resumes =>
          /\ SessionRemaining' = sessionTimeRemainingWhenPaused
          /\ IF activeStateBeforePause = ACTIVE_REP /\ currentState' = LONG_BREAK
             THEN PhaseRemaining' = LONG_BREAK_DURATION_MS
             ELSE PhaseRemaining' = timeRemainingWhenPaused]_vars

\* a session resumed after a pause that lasted some time, back in its phase
C8_Witness ==
    /\ lastEvent \in {"pauseResume", "cancelReset"}
    /\ prevState = PAUSED
    /\ currentState = ACTIVE_REP
    /\ sessionStartTime > ClockStartS * 1000
    /\ PhaseRemaining > 0
    /\ PhaseRemaining < PHASE_DURATIONS_MS[ACTIVE_REP]
    /\ SessionRemaining < totalSessionDurationMs

\* a step in which resetSession(false) runs in a session that is not idle
ResetsRunningSession ==
    /\ currentState # IDLE \/ successShown
    /\ lastEvent' \in {"confirmReset", "newSession", "duration"}

\* C9: resetSession(false) in a state other than IDLE, or after the finish
\* signal, leaves repCount = 0, setProgress = [0,0,0,0,0], currentState =
\* IDLE, both pause snapshots 0 and lastPlayedSubPhase null.
C9_ResetClearsSession ==
    [][ResetsRunningSession =>
          /\ repCount' = 0
          /\ setProgress' = [i \in 0..4 |-> 0]
          /\ currentState' = IDLE
          /\ timeRemainingWhenPaused' = 0
          /\ sessionTimeRemainingWhenPaused' = 0
          /\ lastPlayedSubPhase' = NULL]_vars

\* the reset dialog confirmed in a paused session that had counted a rep
C9_Witness ==
    /\ lastEvent = "confirmReset"
    /\ prevState = PAUSED
    /\ prevRepCount > 0
    /\ currentState = IDLE
    /\ repCount = 0

\* C10: the Start button in a state other than IDLE changes none of
\* currentState, repCount, setProgress, phaseStartTime, sessionStartTime and
\* schedules nothing; in IDLE it sets sessionStartTime and phaseStartTime to
\* Date.now(), enters ACTIVE_REP and schedules one tick.
C10_StartOnlyFromIdle ==
    [][lastEvent' = "start" =>
          IF currentState = IDLE
          THEN /\ sessionStartTime' = now
               /\ phaseStartTime' = now
               /\ currentState' = ACTIVE_REP
               /\ Len(rafCallbacks') = Len(rafCallbacks) + 1
               /\ animationFrameId' = Len(rafCallbacks')
          ELSE UNCHANGED <<currentState, repCount, setProgress, phaseStartTime,
                           sessionStartTime, rafCallbacks, animationFrameId>>]_vars

\* Start pressed during a rep that has already been counted
C10_Witness ==
    /\ lastEvent = "start"
    /\ prevState = ACTIVE_REP
    /\ currentState = ACTIVE_REP
    /\ repCount > 0
    /\ now > phaseStartTime

\* a step in which the user asks for a pause of a session that is idle or
\* paused already: the Pause/Resume button in IDLE (in PAUSED the button
\* asks for a resume), the Reset button in IDLE or PAUSED
PauseRequestOutsideRun ==
    \/ lastEvent' = "pauseResume" /\ currentState = IDLE
    \/ lastEvent' = "reset" /\ currentState \in {IDLE, PAUSED}

\* C11: a pause request in IDLE or PAUSED does not run pauseTimer: both
\* snapshots, activeStateBeforePause and currentState stay as they are.
C11_PauseOnlyWhileRunning ==
    [][PauseRequestOutsideRun =>
          UNCHANGED <<timeRemainingWhenPaused, sessionTimeRemainingWhenPaused,
                      activeStateBeforePause, currentState>>]_vars

\* the Reset button pressed in a paused session: the dialog opens, no pause
C11_Witness ==
    /\ lastEvent = "reset"
    /\ prevState = PAUSED
    /\ currentState = PAUSED
    /\ timeRemainingWhenPaused > 0
    /\ sessionTimeRemainingWhenPaused > 0
    /\ ~wasRunningBeforeModal

\* C12: outside PAUSED no command that can resume applies the resume effect:
\* the Pause/Resume button and the Cancel button of the reset dialog leave
\* phaseStartTime, sessionStartTime and repCount unchanged and restore no
\* state (the button pauses a running session, nothing else moves
\* currentState), whatever reset-requests, button presses and cancels
\* came before.
C12_ResumeOnlyWhenPaused ==
    [][(lastEvent' \in {"pauseResume", "cancelReset"} /\ currentState # PAUSED) =>
          /\ UNCHANGED <<phaseStartTime, sessionStartTime, repCount>>
          /\ currentState' \in {currentState, PAUSED}
          /\ lastEvent' = "cancelReset" => currentState' = currentState]_vars

\* the tick that animationFrameId holds is cancelled by the step
TrackedTickCancelled ==
    /\ animationFrameId' = NO_HANDLE
    /\ animationFrameId \in Range(rafCallbacks) =>
           Len(rafCallbacks') = Len(rafCallbacks) - 1

PausesOrResets ==
    \/ currentState # PAUSED /\ currentState' = PAUSED
    \/ lastEvent' \in {"confirmReset", "newSession"}
    \/ lastEvent' = "duration" /\ currentState # IDLE

\* C14: right after a pause or a reset no tick callback is pending.
C14_NoTickPendingAfterPauseOrReset ==
    [][PausesOrResets => rafCallbacks' = <<>>]_vars

\* min(5, max(0, n))
ClampToSet(n) == IF n < 0 THEN 0 ELSE IF n > 5 THEN 5 ELSE n

\* C15: in every reachable state setProgress has the indices 0..4 only and
\* setProgress[i] = min(5, max(0, repCount - 5 * i)).
C15_SetProgressPartitionsRepCount ==
    /\ DOMAIN setProgress = 0..4
    /\ \A i \in 0..4 : setProgress[i] = ClampToSet(repCount - 5 * i)

\* C16: for a rep of 15000 or 30000 ms and elapsed in [0, rep duration) the
\* sub-phase that updateActiveRepStatus derives is Inhale in [0, 1000),
\* Exhale in [1000, 3000) and Rest from 3000 on.
C16_SubPhaseByElapsed ==
    \A i \in DOMAIN evaluations :
        LET e == evaluations[i]
        IN  (0 <= e.elapsedMs /\ e.elapsedMs < e.repDurationMs) =>
                /\ e.repDurationMs \in {15000, 30000}
                /\ e.elapsedMs < 1000 => e.subPhase = INHALE
                /\ (1000 <= e.elapsedMs /\ e.elapsedMs < 3000) => e.subPhase = EXHALE
                /\ 3000 <= e.elapsedMs => e.subPhase = REST

\* the last millisecond of a 30 s rep evaluated: it is Rest
C16_Witness ==
    /\ lastEvent = "frame"
    /\ Len(evaluations) = 1
    /\ evaluations[1].repDurationMs = 30000
    /\ evaluations[1].elapsedMs = 29999
    /\ evaluations[1].subPhase = REST

\* C17: in every reachable state totalSessionDurationMs is 20 rep durations
\* plus 4 * 56000 plus 5 * 3000 for the configured rep duration (539000 for
\* 15000, 839000 for 30000), and the ACTIVE_REP duration that tick reads is
\* the configured rep duration.
C17_TotalDurationFollowsRepDuration ==
    /\ currentRepDurationMs \in {15000, 30000}
    /\ totalSessionDurationMs = 20 * currentRepDurationMs + 4 * 56000 + 5 * 3000
    /\ currentRepDurationMs = 15000 => totalSessionDurationMs = 539000
    /\ currentRepDurationMs = 30000 => totalSessionDurationMs = 839000
    /\ PHASE_DURATIONS_MS[ACTIVE_REP] = currentRepDurationMs

\* a session of 30 s reps running, the duration chosen by the user
C17_Witness ==
    /\ currentRepDurationMs = 30000
    /\ totalSessionDurationMs = 839000
    /\ PHASE_DURATIONS_MS[ACTIVE_REP] = 30000
    /\ currentState = ACTIVE_REP
    /\ lastEvent = "frame"
    /\ clicks >= 3

\* a frame runs when the time of the running rep is over
RepOverAtFrame ==
    /\ lastEvent' = "frame"
    /\ currentState = ACTIVE_REP
    /\ Elapsed >= PHASE_DURATIONS_MS[ACTIVE_REP]

\* C18: a tick that finds the time of an ActiveRep phase over with repCount
\* not a multiple of 5 starts a new ActiveRep phase at its own time and
\* leaves repCount unchanged; a frame raises repCount only when it is the
\* first to evaluate the Rest span (elapsed >= 3000) of the running phase,
\* and then by one.
C18_NewRepStartsUncounted ==
    [][/\ (RepOverAtFrame /\ repCount % 5 # 0) =>
             /\ currentState' = ACTIVE_REP
             /\ phaseStartTime' = now
             /\ repCount' = repCount
       /\ (lastEvent' = "frame" /\ repCount' # repCount) =>
             /\ InRestSpan
             /\ ~restTicked
             /\ repCount' = repCount + 1]_vars

\* the same for the reps of a session that has not finished
C18_Unfinished ==
    [][~successShown =>
       /\ (RepOverAtFrame /\ repCount % 5 # 0) =>
             /\ currentState' = ACTIVE_REP
             /\ phaseStartTime' = now
             /\ repCount' = repCount
       /\ (lastEvent' = "frame" /\ repCount' # repCount) =>
             /\ InRestSpan
             /\ ~restTicked
             /\ repCount' = repCount + 1]_vars

\* C19: a frame in LONG_BREAK changes neither repCount (a multiple of 5) nor
\* setProgress; before 56000 ms have elapsed it leaves the long break
\* running, from 56000 ms on it starts an ActiveRep phase at its own time.
C19_LongBreakLasts56000 ==
    [][(lastEvent' = "frame" /\ currentState = LONG_BREAK) =>
          /\ UNCHANGED <<repCount, setProgress>>
          /\ repCount % 5 = 0
          /\ IF Elapsed >= 56000
             THEN currentState' = ACTIVE_REP /\ phaseStartTime' = now
             ELSE UNCHANGED <<currentState, phaseStartTime>>]_vars

\* the frame that ends the long break of set 1
C19_Witness ==
    /\ lastEvent = "frame"
    /\ prevState = LONG_BREAK
    /\ currentState = ACTIVE_REP
    /\ phaseStartTime = now
    /\ repCount = 5
    /\ setProgress[0] = 5
    /\ setProgress[1] = 0

\* 440 Hz for Inhale and Rest, 880 Hz for Exhale
ChimeOf(subPhase) == IF subPhase = EXHALE THEN 880 ELSE 440

\* one chime for every evaluation whose sub-phase differs from
\* lastPlayedSubPhase, none for the others
ChimesDue(evals) ==
    LET edges == SelectSeq(evals, LAMBDA e : e.subPhase # e.lastPlayed)
    IN  [i \in 1..Len(edges) |-> ChimeOf(edges[i].subPhase)]

\* C20: the tones of a step are exactly one chime for each evaluation of
\* updateActiveRepStatus, by tick or by resumeTimer, that observes a
\* sub-phase different from lastPlayedSubPhase, the Rest entry of the last
\* rep of a set included.
C20_OneChimePerSubPhaseEdge ==
    [][tonesPlayed' = ChimesDue(evaluations')]_vars

\* the same, but for the evaluations that end a set
C20_ExceptSetEnd ==
    [][tonesPlayed' =
          ChimesDue(SelectSeq(evaluations', LAMBDA e :
              ~(e.subPhase = REST /\ e.lastPlayed # REST /\ repCount' % 5 = 0
                /\ repCount' # repCount)))]_vars

\* C21: whenever a frame finds the time of the running ActiveRep phase over
\* (the tick then performs nextState), repCount has already been raised
\* exactly once since that phase began.
C21_RepCountedBeforePhaseEnds ==
    [][RepOverAtFrame => repCount = repCountAtPhaseStart + 1]_vars

\* C22: a step that begins a long break does so with repCount 5, 10, 15 or
\* 20, and with a repCount at which this session has not begun one before.
C22_LongBreakOncePerSet ==
    [][EntersLongBreak =>
          /\ repCount' \in {5, 10, 15, 20}
          /\ repCount' \notin breaksTaken]_vars

\* C23: a frame that finds the time of the running ActiveRep phase over (the
\* tick then performs nextState) leaves setProgress as it was: what nextState
\* writes is what the rest-entry path wrote already.
C23_NextStateKeepsSetProgress ==
    [][RepOverAtFrame => setProgress' = setProgress]_vars

\* the same for the reps that have been counted
C23_CountedRepKeepsSetProgress ==
    [][(RepOverAtFrame /\ repCount >= 1) => setProgress' = setProgress]_vars

\* C24: every run of tick calls nextState or updateActiveRepStatus, never
\* both, and assigns currentState and phaseStartTime at most once.
C24_OneTransitionPerTick ==
    \A i \in DOMAIN tickLog :
        /\ tickLog[i].nextStates + tickLog[i].evaluations <= 1
        /\ tickLog[i].phaseWrites <= 1

\* a tick whose sub-phase evaluation began the long break, and in another
\* frame a tick that called nextState
C24_Witness ==
    /\ \E i \in DOMAIN tickLog :
          /\ tickLog[i].evaluations = 1
          /\ tickLog[i].phaseWrites = 1
          /\ currentState = LONG_BREAK
    /\ repCount = 10

C24_WitnessNextState ==
    \E i \in DOMAIN tickLog :
        /\ tickLog[i].nextStates = 1
        /\ tickLog[i].phaseWrites = 1
        /\ tickLog[i].state = ACTIVE_REP

\* C25: in every reachable state with currentState = PAUSED,
\* activeStateBeforePause is ACTIVE_REP or LONG_BREAK.
C25_PausedRemembersRunningState ==
    currentState = PAUSED => activeStateBeforePause \in {ACTIVE_REP, LONG_BREAK}

\* paused during a long break
C25_Witness ==
    /\ currentState = PAUSED
    /\ activeStateBeforePause = LONG_BREAK

\* C26: a frame that runs while the session is idle or paused (every tick in
\* it returns at line 831) changes none of repCount, setProgress,
\* currentState, phaseStartTime, sessionStartTime, lastPlayedSubPhase and the
\* pause snapshots, and leaves no tick callback pending.
C26_StoppedTickDoesNothing ==
    [][(lastEvent' = "frame" /\ currentState \in {IDLE, PAUSED}) =>
          /\ UNCHANGED <<repCount, setProgress, currentState, phaseStartTime,
                         sessionStartTime, lastPlayedSubPhase,
                         timeRemainingWhenPaused, sessionTimeRemainingWhenPaused,
                         activeStateBeforePause, wasRunningBeforeModal,
                         animationFrameId, statusText>>
          /\ rafCallbacks' = <<>>]_vars

\* a tick has just run while the session was paused
C26_Witness ==
    /\ lastEvent = "frame"
    /\ prevState = PAUSED
    /\ currentState = PAUSED
    /\ tickLog # <<>>
    /\ tickLog[1].state = PAUSED

\* a tick has just run while the session was idle
C26_WitnessIdle ==
    /\ lastEvent = "frame"
    /\ prevState = IDLE
    /\ tickLog # <<>>
    /\ tickLog[1].state = IDLE

\* C27: in every reachable state at most one tick callback is pending.
C27_AtMostOneTickPending ==
    Len(rafCallbacks) <= 1

\* C28: the 'release' listener requests the wake lock again only while the
\* session is active: not while it is idle or paused, and not after the
\* finish, when the success screen is up.
C28_WakeLockRerequestedOnlyWhileActive ==
    [][(lastEvent' = "wakeLockRelease" /\ wakeLockRequests' > wakeLockRequests) =>
          /\ currentState \in {ACTIVE_REP, LONG_BREAK}
          /\ ~successShown]_vars

\* the same without the finish: no new request while idle or paused
C28_NotWhileIdleOrPaused ==
    [][(lastEvent' = "wakeLockRelease" /\ wakeLockRequests' > wakeLockRequests) =>
          currentState \in {ACTIVE_REP, LONG_BREAK}]_vars

\* the 'release' event of a pause has been delivered during the pause
C28_WitnessPaused ==
    /\ lastEvent = "wakeLockRelease"
    /\ currentState = PAUSED
    /\ wakeLockRequests = 0

\* the finish signal has been issued with all 25 reps in the five set boxes
\* (the elements 0..4 of the array: a stray index is the matter of C15)
C29_Finished ==
    /\ successShown
    /\ repCount = 25
    /\ \A i \in 0..4 : setProgress[i] = 5

\* C29: a started session that is left alone, with time advancing and the
\* requested frames being run, eventually issues the finish signal with
\* repCount = 25 and setProgress = [5, 5, 5, 5, 5].
C29_SessionFinishes ==
    (lastEvent = "start") ~> C29_Finished

====
